---- MODULE Spec2Model ----
(***************************************************************************)
(* A model of the TripAdvisor harvesting pipeline: the checkpointed city   *)
(* cache (cache/city_cache.py), the Airflow task process_cities            *)
(* (airflow_dag.py) that iterates it, and the scraper's construction       *)
(* (scraper/scraper.py).                                                   *)
(***************************************************************************)
EXTENDS Integers, Sequences, FiniteSets, TLC

VARIABLES
    store,           \* the file system: directory -> the cache document kept under it
    cwd,             \* the working directory of the process (resolves relative paths)
    cities_per_job,  \* CityCache.cities_per_job
    cache,           \* CityCache.cache, the in-memory list of city tasks
    num_processed,   \* CityCache.num_processed
    idx,             \* the generator's position in enumerate(self.cache)
    pc,              \* the position of process_cities / of the generator
    run,             \* how many times process_cities has been started
    scraper,         \* the TripAdvisorScraper of the city in hand, with the requests it issued
    calls,           \* calls made to the collaborators for the city in hand
    artifacts,       \* namespaces for which error_log/<namespace>.txt was written
    outcome,         \* per task of this run: "none", "running", "ok" or "failed"
    yielded,         \* the indexes yielded in this run, in order
    yieldedBefore,   \* the indexes yielded in earlier runs
    nwrites,         \* per task of this run: how many update_cache() calls it caused
    unprocessed0,    \* the indexes that were unprocessed when this run's cache was loaded
    arg,             \* the input of a function under check
    res              \* its result

vars == <<store, cwd, cities_per_job, cache, num_processed, idx, pc, run, scraper,
          calls, artifacts, outcome, yielded, yieldedBefore, nwrites, unprocessed0,
          arg, res>>

runVars == <<store, cwd, cities_per_job, cache, num_processed, idx, pc, run, scraper,
             calls, artifacts, outcome, yielded, yieldedBefore, nwrites, unprocessed0>>

----------------------------------------------------------------------------
(* Bounds *)

MaxTasks == 3      \* tasks in the checkpoint document
MaxLimit == 3      \* the largest run limit tried
MaxRuns == 2       \* starts of process_cities
MaxIds == 2        \* attraction ids a listing can hold
MaxResults == 3    \* results in one typeahead response
MaxSections == 3   \* sections in one listing response
MaxTotal == 97     \* the largest discovered total
MaxCap == 61       \* the largest cap a caller passes
MaxPages == 2      \* listing pages of one city
MaxCalls == 2      \* calls of get_attr_details on one scraper
MaxFailures == 5   \* failed request attempts in one run of the fan-outs
MaxBatch == 3      \* detail payloads in one batch
MaxInts == 2       \* integers in one DURATION text
MaxDigit == 20     \* the largest integer in a DURATION text
MaxRecords == 201  \* records get_attr_details hands to the embedding step

(* Program constants *)

MIN_DISTANCE == 50
DEFAULT_TOTAL_RESULTS == 30
PAGE_SIZE == 30
AIRFLOW_CITIES_PER_JOB == 2
STOP_AFTER_ATTEMPT == 5
GCP_CHECK_RETRIES == 20
GCP_LOAD_RETRIES == 20
GCP_UPLOAD_RETRIES == 100
OPENAI_RETRIES == 10
DEFAULT_DURATION == 45
DEFAULT_REVIEW_COUNT == 0
DEFAULT_RATING == <<2, 5>>      \* 2.5
OPENAI_EMBEDDING_BATCH == 100

----------------------------------------------------------------------------
(* Python's None and the values that may be None *)

None == <<>>
Some(v) == <<v>>
IsNone(o) == o = <<>>
Val(o) == o[1]

----------------------------------------------------------------------------
(* The checkpoint document: cache/city_cache.json *)

Task(i, p, s) == [namespace |-> i, processed |-> p, success |-> s]

\* (processed, success) of a task of a document: success is written only
\* after processed, so an unprocessed task never has success = TRUE.
FlagPairs == {<<FALSE, FALSE>>, <<TRUE, FALSE>>, <<TRUE, TRUE>>}

DocOf(f) == [i \in DOMAIN f |-> Task(i, f[i][1], f[i][2])]

InitialDocs == UNION {{DocOf(f) : f \in [1..n -> FlagPairs]} : n \in 0..MaxTasks}

\* Directories.  BASE_FILEPATH is the directory of config.py; the process may
\* have been started there or anywhere else.
BASE_FILEPATH == "base"
Dirs == {"base", "elsewhere"}

\* os.path.join(BASE_FILEPATH, CACHE_FILENAME): the document under BASE_FILEPATH
CACHE_FILEPATH == BASE_FILEPATH

\* CACHE_FILENAME is relative: open() resolves it against the working directory
CACHE_FILENAME(dir) == dir

NoFile == [exists |-> FALSE, doc |-> <<>>]
File(d) == [exists |-> TRUE, doc |-> d]

\* update_cache that writes nothing
update_cache_Dropped(st, dir, c) == st

\* CityCache.update_cache: json.dump(self.cache) into open(CACHE_FILENAME, "w")
update_cache(st, dir, c) == [st EXCEPT ![CACHE_FILENAME(dir)] = File(c)]

\* CityCache.cache_complete: return False at the first unprocessed task
RECURSIVE cache_complete_from(_, _)
cache_complete_from(c, i) ==
    IF i > Len(c) THEN TRUE
    ELSE IF ~c[i].processed THEN FALSE
    ELSE cache_complete_from(c, i + 1)

\* cache_complete reading the success flag instead of processed
cache_complete_BySuccess(c) == \A i \in DOMAIN c : c[i].success

cache_complete(c) == cache_complete_from(c, 1)

----------------------------------------------------------------------------
(* The provider's responses *)

LOCATION_ITEM == "Typeahead_LocationItem"
PAGINATION_LIST == "WebPresentation_PaginationLinksList"
OTHER_KIND == "Other"

\* compute_distance() of a result from the target, in km: one value well
\* inside the threshold, the threshold itself, one well outside.
DistKm == {10, 50, 200}

\* Which of the keys details.latitude / details.longitude a result carries
CoordKeys == {"nodetails", "nolatitude", "nolongitude", "both"}

ResultItems == [typename : {LOCATION_ITEM, OTHER_KIND}, coords : CoordKeys, dist : DistKm]

ResultLists == UNION {[1..n -> ResultItems] : n \in 0..MaxResults}

\* item["locationId"]: the i-th result of a response carries the id 100 + i
locationId(results, i) == 100 + i

TotalResults == {0, 97}

SectionItems ==
    [typename : {PAGINATION_LIST, OTHER_KIND}, hasTotal : BOOLEAN, totalResults : TotalResults]

SectionLists == UNION {[1..n -> SectionItems] : n \in 0..MaxSections}

\* A request after its retries: the JSON document, or the error that escaped
Failed == [ok |-> FALSE, body |-> <<>>]
Ok(b) == [ok |-> TRUE, body |-> b]

----------------------------------------------------------------------------
(* scraper/scraper.py *)

\* TripAdvisorScraper.get_city_id, the loop over the results from the i-th on
RECURSIVE get_city_id_from(_, _)
get_city_id_from(results, i) ==
    IF i > Len(results) THEN None          \* falls off the end: returns None
    ELSE LET item == results[i] IN
         IF item.typename = LOCATION_ITEM
         THEN IF item.coords # "both"
              THEN get_city_id_from(results, i + 1)      \* KeyError: continue
              ELSE IF item.dist < MIN_DISTANCE
                   THEN Some(locationId(results, i))
                   ELSE get_city_id_from(results, i + 1)
         ELSE get_city_id_from(results, i + 1)

\* get_city_id accepting a result at the threshold itself
RECURSIVE get_city_id_from_AtMost(_, _)
get_city_id_from_AtMost(results, i) ==
    IF i > Len(results) THEN None
    ELSE LET item == results[i] IN
         IF item.typename = LOCATION_ITEM /\ item.coords = "both"
            /\ item.dist <= MIN_DISTANCE
         THEN Some(locationId(results, i))
         ELSE get_city_id_from_AtMost(results, i + 1)

get_city_id_AtMost(results) == get_city_id_from_AtMost(results, 1)

get_city_id(results) == get_city_id_from(results, 1)

\* The loop of get_max_attr over sections[::-1], from the i-th section down
RECURSIVE pagination_scan(_, _)
pagination_scan(sections, i) ==
    IF i < 1 THEN None                     \* falls off the end: returns None
    ELSE LET item == sections[i] IN
         IF item.typename = PAGINATION_LIST
         THEN Some(IF item.hasTotal THEN item.totalResults ELSE DEFAULT_TOTAL_RESULTS)
         ELSE pagination_scan(sections, i - 1)

\* get_max_attr without its guard on an absent city id
get_max_attr_Unguarded(city_id, resp) ==
    IF ~resp.ok
    THEN [calls |-> {<<"listing", city_id>>}, raised |-> TRUE, value |-> None]
    ELSE [calls |-> {<<"listing", city_id>>}, raised |-> FALSE,
          value |-> pagination_scan(resp.body, Len(resp.body))]

\* TripAdvisorScraper.get_max_attr: the requests it issues, whether it raised,
\* and the value it returned
get_max_attr(city_id, resp) ==
    IF IsNone(city_id)
    THEN [calls |-> {}, raised |-> FALSE, value |-> None]
    ELSE IF ~resp.ok
         THEN [calls |-> {<<"listing", city_id>>}, raised |-> TRUE, value |-> None]
         ELSE [calls |-> {<<"listing", city_id>>}, raised |-> FALSE,
               value |-> pagination_scan(resp.body, Len(resp.body))]
\* n / 30 rounded down instead of up
CeilPages_Floor(n) == n \div PAGE_SIZE

\* math.ceil(n / 30) for a non-negative integer n
CeilPages(n) == (n + PAGE_SIZE - 1) \div PAGE_SIZE

\* A scraper: whether constructing or using it raised, the requests it issued,
\* how the city lookup ended, and its fields
NoScraper == [raised |-> FALSE, calls |-> {}, lookup |-> "none", city_id |-> None,
              max_attr |-> None, max_pages |-> None, nrecords |-> 0]

\* TripAdvisorScraper.__init__ given the two responses and the caller's cap
\* (None when absent).  min() and the division raise TypeError on None.
TripAdvisorScraperInit(lookup, listing, cap) ==
    LET c0 == {<<"city_lookup", None>>} IN
    IF ~lookup.ok
    THEN [NoScraper EXCEPT !.raised = TRUE, !.calls = c0]
    ELSE LET city_id == get_city_id(lookup.body)
             m == get_max_attr(city_id, listing)
             sc == [NoScraper EXCEPT
                       !.calls = c0 \cup m.calls,
                       !.lookup = IF IsNone(city_id) THEN "unresolved" ELSE "resolved",
                       !.city_id = city_id]
         IN IF m.raised
            THEN [sc EXCEPT !.raised = TRUE]
            ELSE IF IsNone(m.value)
            THEN [sc EXCEPT !.raised = TRUE]          \* TypeError
            ELSE LET max_attr ==
                         IF IsNone(cap) THEN Val(m.value)
                         ELSE IF Val(m.value) < Val(cap) THEN Val(m.value) ELSE Val(cap)
                 IN [sc EXCEPT !.max_attr = Some(max_attr),
                               !.max_pages = Some(CeilPages(max_attr))]

\* The failed lookup request, and one typeahead response for each way
\* get_city_id can end: resolved, unresolved
LookupOutcomes == {IsNone(get_city_id(r)) : r \in ResultLists}
LookupSamples ==
    {Failed} \cup
    {Ok(CHOOSE r \in ResultLists : IsNone(get_city_id(r)) = o) : o \in LookupOutcomes}

ListingResponses == {Failed} \cup {Ok(s) : s \in SectionLists}

\* What constructing the scraper in process_cities (no cap) can come to
InitOutcomes ==
    {TripAdvisorScraperInit(l, s, None) : l \in LookupSamples, s \in ListingResponses}

\* TripAdvisorScraper.get_attr_details: get_attr_ids, then one detail request
\* per id of attr_ids[:max_attr], then format_attr_details.
\*   listingOk  every listing request returned
\*   nids       the ids the listing pages hold together
\*   detailOk   every detail request returned
\*   ndropped   the payloads format_attr_details dropped
get_attr_details(sc, listingOk, nids, detailOk, ndropped) ==
    IF Val(sc.max_pages) = 0
    THEN [sc EXCEPT !.raised = TRUE]       \* reduce() of an empty list: TypeError
    ELSE LET c1 == sc.calls \cup {<<"listing", sc.city_id>>} IN
         IF ~listingOk THEN [sc EXCEPT !.raised = TRUE, !.calls = c1]
         ELSE LET n == IF nids < Val(sc.max_attr) THEN nids ELSE Val(sc.max_attr)
                  c2 == IF n > 0 THEN c1 \cup {<<"detail", sc.city_id>>} ELSE c1
              IN IF ~detailOk /\ n > 0 THEN [sc EXCEPT !.raised = TRUE, !.calls = c2]
                 ELSE [sc EXCEPT !.calls = c2,
                                 !.nrecords = IF ndropped < n THEN n - ndropped ELSE 0]

----------------------------------------------------------------------------
(* The initial state: a checkpoint document under BASE_FILEPATH, a working
   directory, a run limit; process_cities has not been started. *)

Init ==
    /\ cwd \in Dirs
    /\ \E d \in InitialDocs :
          store = [dir \in Dirs |-> IF dir = BASE_FILEPATH THEN File(d) ELSE NoFile]
    /\ cities_per_job \in 0..MaxLimit
    /\ cache = <<>>
    /\ num_processed = 0
    /\ idx = 0
    /\ pc = "idle"
    /\ run = 0
    /\ scraper = NoScraper
    /\ calls = {}
    /\ artifacts = {}
    /\ outcome = <<>>
    /\ yielded = <<>>
    /\ yieldedBefore = {}
    /\ nwrites = <<>>
    /\ unprocessed0 = {}
    /\ arg = <<>>
    /\ res = <<>>

Unprocessed(c) == {i \in DOMAIN c : ~c[i].processed}

SeqRange(q) == {q[i] : i \in DOMAIN q}

InRun == pc \notin {"idle", "returned", "killed", "crashed"}

----------------------------------------------------------------------------
(* cache/city_cache.py and airflow_dag.py: one action per step *)

\* CityCache.__init__: json.load of the document at CACHE_FILEPATH
Construct ==
    /\ pc \in {"idle", "returned", "killed", "crashed"}
    /\ run < MaxRuns
    /\ store[CACHE_FILEPATH].exists
    /\ run' = run + 1
    /\ cache' = store[CACHE_FILEPATH].doc
    /\ num_processed' = 0
    /\ idx' = 0
    /\ pc' = "constructed"
    /\ scraper' = NoScraper
    /\ calls' = {}
    /\ outcome' = [i \in DOMAIN cache' |-> "none"]
    /\ nwrites' = [i \in DOMAIN cache' |-> 0]
    /\ yielded' = <<>>
    /\ yieldedBefore' = yieldedBefore \cup SeqRange(yielded)
    /\ unprocessed0' = Unprocessed(cache')
    /\ UNCHANGED <<store, cwd, cities_per_job, artifacts, arg, res>>

\* process_cities: cache.cache_complete() holds, kill_airflow_job and return
KillJob ==
    /\ pc = "constructed"
    /\ cache_complete(cache)
    /\ pc' = "killed"
    /\ UNCHANGED <<store, cwd, cities_per_job, cache, num_processed, idx, run, scraper,
                   calls, artifacts, outcome, yielded, yieldedBefore, nwrites,
                   unprocessed0, arg, res>>

\* process_cities: the for loop calls iter(cache)
BeginIteration ==
    /\ pc = "constructed"
    /\ ~cache_complete(cache)
    /\ idx' = 1
    /\ pc' = "scan"
    /\ UNCHANGED <<store, cwd, cities_per_job, cache, num_processed, run, scraper,
                   calls, artifacts, outcome, yielded, yieldedBefore, nwrites,
                   unprocessed0, arg, res>>

\* __iter__: the task at idx is processed already, the loop goes on
GenSkip ==
    /\ pc = "scan"
    /\ idx <= Len(cache)
    /\ cache[idx].processed
    /\ idx' = idx + 1
    /\ UNCHANGED <<store, cwd, cities_per_job, cache, num_processed, pc, run, scraper,
                   calls, artifacts, outcome, yielded, yieldedBefore, nwrites,
                   unprocessed0, arg, res>>

\* The flags swapped: success set, processed left alone
MarkProcessed_Swapped(c, i) == [c EXCEPT ![i].success = TRUE]

\* The in-memory cache after the two assignments that precede the yield
MarkProcessed(c, i) == [c EXCEPT ![i].processed = TRUE, ![i].success = FALSE]

\* __iter__: mark the task at idx, persist, yield it to the for loop
GenYield ==
    /\ pc = "scan"
    /\ idx <= Len(cache)
    /\ ~cache[idx].processed
    /\ cache' = MarkProcessed(cache, idx)
    /\ store' = update_cache(store, cwd, cache')
    /\ nwrites' = [nwrites EXCEPT ![idx] = @ + 1]
    /\ yielded' = Append(yielded, idx)
    /\ outcome' = [outcome EXCEPT ![idx] = "running"]
    /\ scraper' = NoScraper
    /\ calls' = {}
    /\ pc' = "body"
    /\ UNCHANGED <<cwd, cities_per_job, num_processed, idx, run, artifacts,
                   yieldedBefore, unprocessed0, arg, res>>

\* __iter__: the enumeration is over, the generator and the for loop end
GenExhausted ==
    /\ pc = "scan"
    /\ idx > Len(cache)
    /\ pc' = "returned"
    /\ UNCHANGED <<store, cwd, cities_per_job, cache, num_processed, idx, run, scraper,
                   calls, artifacts, outcome, yielded, yieldedBefore, nwrites,
                   unprocessed0, arg, res>>
\* The assignment after the yield made to every task
MarkSuccess_All(c, i) == [j \in DOMAIN c |-> [c[j] EXCEPT !.success = TRUE]]

\* The in-memory cache after the assignment that follows the yield
MarkSuccess(c, i) == [c EXCEPT ![i].success = TRUE]

\* Whether the generator returns after counting one more task
LimitReached(n, limit) == n = limit

\* __iter__ resumed by the for loop's next(): the code after the yield
GenResume ==
    /\ pc = "resume"
    /\ cache' = MarkSuccess(cache, idx)
    /\ store' = update_cache(store, cwd, cache')
    /\ nwrites' = [nwrites EXCEPT ![idx] = @ + 1]
    /\ num_processed' = num_processed + 1
    /\ IF LimitReached(num_processed', cities_per_job)
       THEN pc' = "returned" /\ idx' = idx
       ELSE pc' = "scan" /\ idx' = idx + 1
    /\ scraper' = NoScraper      \* the scraper of the finished body is not used again
    /\ calls' = {}
    /\ UNCHANGED <<cwd, cities_per_job, run, artifacts, outcome,
                   yielded, yieldedBefore, unprocessed0, arg, res>>

----------------------------------------------------------------------------
(* airflow_dag.py: the body of the for loop, for the city the generator yielded *)

\* scraper = TripAdvisorScraper(city_info)
ScraperInit ==
    /\ pc = "body"
    /\ \E o \in InitOutcomes :
          /\ scraper' = o
          /\ pc' = IF o.raised THEN "except" ELSE "details"
    /\ UNCHANGED <<store, cwd, cities_per_job, cache, num_processed, idx, run, calls,
                   artifacts, outcome, yielded, yieldedBefore, nwrites, unprocessed0,
                   arg, res>>

\* attr_details = loop.run_until_complete(scraper.get_attr_details())
GetAttrDetails ==
    /\ pc = "details"
    /\ \E listingOk \in BOOLEAN, nids \in 0..MaxIds, detailOk \in BOOLEAN,
          ndropped \in 0..MaxIds :
          LET o == get_attr_details(scraper, listingOk, nids, detailOk, ndropped) IN
          /\ scraper' = o
          /\ pc' = IF o.raised THEN "except" ELSE "embed"
    /\ UNCHANGED <<store, cwd, cities_per_job, cache, num_processed, idx, run, calls,
                   artifacts, outcome, yielded, yieldedBefore, nwrites, unprocessed0,
                   arg, res>>

\* get_text_embeddings: one embedding_api call per batch of prompts, none for no record
EmbeddingCalls(n) == IF n > 0 THEN {"embedding"} ELSE {}

\* embeddings = get_text_embeddings(attr_details); create_pinecone_data(...)
Embed ==
    /\ pc = "embed"
    /\ calls' = calls \cup EmbeddingCalls(scraper.nrecords)
    /\ \E ok \in BOOLEAN :
          pc' = IF ok \/ scraper.nrecords = 0 THEN "upload" ELSE "except"
    /\ UNCHANGED <<store, cwd, cities_per_job, cache, num_processed, idx, run, scraper,
                   artifacts, outcome, yielded, yieldedBefore, nwrites, unprocessed0,
                   arg, res>>

\* client.upload_file(pinecone_data, filename)
Upload ==
    /\ pc = "upload"
    /\ calls' = calls \cup {"blob"}
    /\ \E ok \in BOOLEAN : pc' = IF ok THEN "upsert" ELSE "except"
    /\ UNCHANGED <<store, cwd, cities_per_job, cache, num_processed, idx, run, scraper,
                   artifacts, outcome, yielded, yieldedBefore, nwrites, unprocessed0,
                   arg, res>>

\* pinecone_upsert_data: one upsert per batch of records, none for no record
UpsertCalls(n) == IF n > 0 THEN {"vector"} ELSE {}

\* pinecone_upsert_data(pinecone_data, city_info["namespace"]); the body ends
Upsert ==
    /\ pc = "upsert"
    /\ calls' = calls \cup UpsertCalls(scraper.nrecords)
    /\ \E ok \in BOOLEAN :
          IF ok
          THEN pc' = "resume" /\ outcome' = [outcome EXCEPT ![idx] = "ok"]
          ELSE pc' = "except" /\ outcome' = outcome
    /\ UNCHANGED <<store, cwd, cities_per_job, cache, num_processed, idx, run, scraper,
                   artifacts, yielded, yieldedBefore, nwrites, unprocessed0, arg, res>>

\* open(f"error_log/{city_info['namespace']}.txt", "w") and the two writes
write_error_log(logs, city_info) == logs \cup {city_info.namespace}

\* A handler that logs and leaves the loop
Except_Break ==
    /\ pc = "except"
    /\ artifacts' = write_error_log(artifacts, cache[idx])
    /\ outcome' = [outcome EXCEPT ![idx] = "failed"]
    /\ pc' = "returned"
    /\ UNCHANGED <<store, cwd, cities_per_job, cache, num_processed, idx, run, scraper,
                   calls, yielded, yieldedBefore, nwrites, unprocessed0, arg, res>>

\* except Exception as err: the handler; the for loop then asks for the next task
Except ==
    /\ pc = "except"
    /\ artifacts' = write_error_log(artifacts, cache[idx])
    /\ outcome' = [outcome EXCEPT ![idx] = "failed"]
    /\ pc' = "resume"
    /\ UNCHANGED <<store, cwd, cities_per_job, cache, num_processed, idx, run, scraper,
                   calls, yielded, yieldedBefore, nwrites, unprocessed0, arg, res>>

\* The process stops (killed, power loss, an error outside the try block):
\* what it held in memory is gone, the files stay
Crash ==
    /\ InRun
    /\ pc' = "crashed"
    /\ cache' = <<>>
    /\ num_processed' = 0
    /\ idx' = 0
    /\ scraper' = NoScraper
    /\ calls' = {}
    /\ UNCHANGED <<store, cwd, cities_per_job, run, artifacts, outcome, yielded,
                   yieldedBefore, nwrites, unprocessed0, arg, res>>

Next ==
    \/ Construct
    \/ KillJob
    \/ BeginIteration
    \/ GenSkip
    \/ GenYield
    \/ GenExhausted
    \/ GenResume
    \/ ScraperInit
    \/ GetAttrDetails
    \/ Embed
    \/ Upload
    \/ Upsert
    \/ Except
    \/ Crash

Spec == Init /\ [][Next]_vars

----------------------------------------------------------------------------
(* Properties of the run *)

\* The document update_cache writes, and the one CityCache.__init__ reads
Written == store[CACHE_FILENAME(cwd)]
Read == store[CACHE_FILEPATH]

Yielded == SeqRange(yielded)

\* The loop body is at work on the task at idx
InBody == pc \in {"body", "details", "embed", "upload", "upsert", "except"}

\* C1: after the run, every yielded task whose harvest raised is recorded
\* processed = true, success = false, in memory and in the written document,
\* and success = true is held only by yielded tasks whose harvest returned.
C1_FailureRecorded ==
    pc = "returned" =>
        \A i \in Yielded :
            /\ outcome[i] = "failed" =>
                  /\ cache[i].processed /\ ~cache[i].success
                  /\ Written.doc[i].processed /\ ~Written.doc[i].success
            /\ cache[i].success => outcome[i] = "ok"

\* C2: with a run limit below the number of unprocessed tasks, a full pass
\* yields exactly that many tasks and leaves the others unprocessed.
C2_YieldsExactlyLimit ==
    (pc = "returned" /\ cities_per_job < Cardinality(unprocessed0)) =>
        /\ Len(yielded) = cities_per_job
        /\ Cardinality(Unprocessed(cache)) = Cardinality(unprocessed0) - cities_per_job

\* C3: a task that was yielded is recorded processed in the document the
\* next run loads, and no run yields a task an earlier run yielded.
C3_YieldedOnceForAll ==
    /\ \A i \in Yielded \cup yieldedBefore : Read.doc[i].processed
    /\ Yielded \cap yieldedBefore = {}

C5_ProcessedMonotonic ==
    /\ [](\A i \in DOMAIN cache : cache[i].success => cache[i].processed)
    /\ [][(run' = run /\ pc' # "crashed") =>
             \A i \in DOMAIN cache :
                 cache[i].processed => (i \in DOMAIN cache' /\ cache'[i].processed)]_vars

C5_Witness ==
    /\ pc = "returned"
    /\ Len(yielded) >= 2
    /\ \E i \in DOMAIN cache : ~cache[i].processed

\* C6: cache_complete() is true exactly when every task is processed,
\* whatever the success flags; the job is killed in exactly that case.
C6_CompleteIffAllProcessed ==
    /\ pc # "crashed" /\ pc # "idle" =>
          (cache_complete(cache) <=> \A i \in DOMAIN cache : cache[i].processed)
    /\ Read.exists =>
          (cache_complete(Read.doc) <=> \A i \in DOMAIN Read.doc : Read.doc[i].processed)
    /\ pc = "killed" => \A i \in DOMAIN cache : cache[i].processed
    /\ pc = "scan" /\ Yielded = {} => \E i \in DOMAIN cache : ~cache[i].processed

C6_Witness ==
    /\ pc = "killed"
    /\ \E i, j \in DOMAIN cache : cache[i].success /\ ~cache[j].success

\* C7: a failed city has its failure artifact and stays processed; the loop
\* ends only at its limit or when nothing is left; one city at a time.
C7_FailureLoggedLoopGoesOn ==
    /\ pc # "crashed" =>
          \A i \in DOMAIN outcome :
              outcome[i] = "failed" =>
                  cache[i].namespace \in artifacts /\ cache[i].processed
    /\ pc = "returned" =>
          \/ num_processed = cities_per_job
          \/ Unprocessed(cache) = {}
    /\ InBody =>
          /\ outcome[idx] = "running"
          /\ \A j \in Yielded \ {idx} : outcome[j] \in {"ok", "failed"}
    /\ ~InBody => \A j \in DOMAIN outcome : outcome[j] # "running" \/ pc = "crashed"

C7_Witness ==
    /\ pc = "body"
    /\ \E j \in Yielded : outcome[j] = "failed"

\* C8: for an unresolved city no listing or detail request is issued,
\* nothing reaches the collaborators, and the failure artifact is written.
C8_UnresolvedShortCircuits ==
    scraper.lookup = "unresolved" =>
        /\ \A c \in scraper.calls : c[1] \notin {"listing", "detail"}
        /\ calls = {}
        /\ pc \in {"except", "resume"}
        /\ pc = "resume" =>
              cache[idx].namespace \in artifacts /\ outcome[idx] = "failed"

C8_Witness ==
    /\ scraper.lookup = "unresolved"
    /\ pc = "resume"

----------------------------------------------------------------------------
(* The scraper's functions on their own: a response is drawn, the function
   is applied to it once. *)

NotCalled == [done |-> FALSE, value |-> None]
Returned(v) == [done |-> TRUE, value |-> v]

\* No run of process_cities is going on
RunIdle ==
    /\ cwd = BASE_FILEPATH
    /\ store = [dir \in Dirs |-> NoFile]
    /\ cities_per_job = AIRFLOW_CITIES_PER_JOB
    /\ cache = <<>>
    /\ num_processed = 0
    /\ idx = 0
    /\ pc = "idle"
    /\ run = 0
    /\ scraper = NoScraper
    /\ calls = {}
    /\ artifacts = {}
    /\ outcome = <<>>
    /\ yielded = <<>>
    /\ yieldedBefore = {}
    /\ nwrites = <<>>
    /\ unprocessed0 = {}

InitResolver ==
    /\ RunIdle
    /\ arg \in ResultLists
    /\ res = NotCalled

\* self.city_id = self.get_city_id(), on the results of the response
CallGetCityId ==
    /\ ~res.done
    /\ res' = Returned(get_city_id(arg))
    /\ UNCHANGED <<arg, runVars>>

NextResolver == CallGetCityId

SpecResolver == InitResolver /\ [][NextResolver]_vars

InitMaxAttr ==
    /\ RunIdle
    /\ arg \in SectionLists
    /\ res = NotCalled

\* self.max_attr = self.get_max_attr(), for a resolved city, on the sections
\* of listing page 0
CallGetMaxAttr ==
    /\ ~res.done
    /\ res' = Returned(get_max_attr(Some(locationId(<<>>, 1)), Ok(arg)).value)
    /\ UNCHANGED <<arg, runVars>>

NextMaxAttr == CallGetMaxAttr

SpecMaxAttr == InitMaxAttr /\ [][NextMaxAttr]_vars

SetMin(S) == CHOOSE m \in S : \A x \in S : m <= x
SetMax(S) == CHOOSE m \in S : \A x \in S : m >= x

\* A result of the location kind, with coordinates, less than 50 km away
Qualifies(item) ==
    /\ item.typename = LOCATION_ITEM
    /\ item.coords = "both"
    /\ item.dist < 50

Qualifying(results) == {i \in DOMAIN results : Qualifies(results[i])}

\* C9: get_city_id returns the id of the first qualifying result, in
\* response order, and None when no result qualifies.
C9_FirstQualifying ==
    res.done =>
        IF Qualifying(arg) = {}
        THEN res.value = None
        ELSE res.value = Some(locationId(arg, SetMin(Qualifying(arg))))

C9_Witness ==
    /\ res.done
    /\ Len(arg) = 3
    /\ arg[1].typename = LOCATION_ITEM /\ arg[1].coords # "both" /\ arg[1].dist = 10
    /\ Qualifies(arg[2])
    /\ Qualifies(arg[3])
    /\ res.value = Some(locationId(arg, 2))

Paginations(sections) == {i \in DOMAIN sections : sections[i].typename = PAGINATION_LIST}

\* C10: the discovered total is the count of the pagination section, and 30
\* when the section has no count or when there is no pagination section.
C10_TotalOrThirty ==
    res.done =>
        res.value =
            Some(IF Paginations(arg) = {} THEN 30
                 ELSE LET item == arg[SetMax(Paginations(arg))] IN
                      IF item.hasTotal THEN item.totalResults ELSE 30)

----------------------------------------------------------------------------
(* The page count of TripAdvisorScraper.__init__, for a resolved city, a
   discovered total and an optional cap. *)

\* A typeahead response that resolves the city
ResolvedLookup ==
    Ok(<<[typename |-> LOCATION_ITEM, coords |-> "both", dist |-> 10]>>)

\* Listing page 0 whose pagination section counts `total` results
ListingWithTotal(total) ==
    Ok(<<[typename |-> PAGINATION_LIST, hasTotal |-> TRUE, totalResults |-> total]>>)

Caps == {None} \cup {Some(c) : c \in 0..MaxCap}

InitPages ==
    /\ RunIdle
    /\ arg \in [total : 0..MaxTotal, cap : Caps]
    /\ res = NotCalled

\* TripAdvisorScraper(city, lat, lng, max_attr=cap)
CallScraperInit ==
    /\ ~res.done
    /\ res' = Returned(TripAdvisorScraperInit(ResolvedLookup,
                                              ListingWithTotal(arg.total), arg.cap))
    /\ UNCHANGED <<arg, runVars>>

NextPages == CallScraperInit

SpecPages == InitPages /\ [][NextPages]_vars

\* min(T, C), and T when no cap is given
EffectiveMax(total, cap) ==
    IF IsNone(cap) THEN total ELSE SetMin({total, Val(cap)})

\* p = ceil(n / 30): the least p with 30 * p >= n
IsCeilOfThirtieth(p, n) == 30 * p >= n /\ 30 * (p - 1) < n

\* C11: for every discovered total T >= 0 and optional cap C the effective
\* maximum is min(T, C) (T without a cap) and the number of listing pages is
\* ceil(effectiveMax / 30); T = 97 gives 4 pages and T = 0 gives 0 pages.
C11_PagesAreCeil ==
    res.done =>
        /\ ~res.value.raised
        /\ res.value.max_attr = Some(EffectiveMax(arg.total, arg.cap))
        /\ IsCeilOfThirtieth(Val(res.value.max_pages), EffectiveMax(arg.total, arg.cap))
        /\ (arg.total = 97 /\ IsNone(arg.cap) => res.value.max_pages = Some(4))
        /\ (arg.total = 0 => res.value.max_pages = Some(0))

C11_Witness ==
    /\ res.done
    /\ arg.total = 97
    /\ IsNone(arg.cap)
    /\ res.value.max_attr = Some(97)
    /\ res.value.max_pages = Some(4)

----------------------------------------------------------------------------
(* The two concurrent phases of TripAdvisorScraper.get_attr_details on one
   event loop: one get_async_request task per listing page, joined by
   asyncio.gather, then one task per id of attr_ids[:max_attr], joined
   again.  `arg` is the scraper's max_attr and what each listing page holds,
   `res` the coroutine's position, the scraper's attr_ids and the tasks. *)

RECURSIVE SumSeq(_)
SumSeq(s) == IF s = <<>> THEN 0 ELSE s[1] + SumSeq(Tail(s))

\* max_attr values: no page, one page cut short or not, each further page
FetchCaps == {0, 1, MaxIds} \cup {PAGE_SIZE * k + 1 : k \in 1..(MaxPages - 1)}

\* pages[p + 1] is the number of cards on listing page p
FetchInputs ==
    UNION {{[max_attr |-> m, pages |-> p] :
               p \in {q \in [1..CeilPages(m) -> 0..MaxIds] : SumSeq(q) <= MaxIds}} :
           m \in FetchCaps}

\* The provider's answer to the request for listing page p, and to the
\* detail request for an id
ListingResponse(p) == [page |-> p, ncards |-> arg.pages[p + 1]]
DetailResponse(id) == [forId |-> id]

\* parse_attr_ids_response: the id and name of each card, in card order
parse_attr_ids_response(resp) ==
    [j \in 1..resp.ncards |-> [id |-> <<resp.page, j>>, name |-> <<resp.page, j>>]]

\* reduce(lambda x, y: x + y, lists) of a non-empty list of lists
RECURSIVE reduce_concat(_)
reduce_concat(lists) ==
    IF Len(lists) = 1 THEN lists[1]
    ELSE reduce_concat(SubSeq(lists, 1, Len(lists) - 1)) \o lists[Len(lists)]

\* A get_async_request task: its request, the attempts made, its state
NewTask(req) == [req |-> req, attempts |-> 0, status |-> "inflight"]

\* An attempt of get_async_request returns the response
get_async_request_ok(t) == [t EXCEPT !.attempts = @ + 1, !.status = "done"]

\* An attempt raises: tenacity retries until stop_after_attempt(5)
get_async_request_fail(t) ==
    [t EXCEPT !.attempts = @ + 1,
              !.status = IF t.attempts + 1 >= STOP_AFTER_ATTEMPT
                         THEN "failed" ELSE "inflight"]
\* The results in the order the tasks completed in
gather_AsCompleted(responses, order) ==
    [i \in DOMAIN responses |-> responses[order[i]]]

\* data = await asyncio.gather(*tasks): the results in the order of the
\* tasks, whatever the order they completed in.  The result of a task is
\* the response to its request.
gather(responses, order) == responses
\* get_attr_ids without its guard: every call refetches
attr_ids_is_None_Always(attr_ids) == TRUE

\* if self.attr_ids is None
attr_ids_is_None(attr_ids) == IsNone(attr_ids)

\* for attr_id in self.attr_ids[:self.max_attr]: tasks.append(...)
detail_tasks(attr_ids) ==
    [i \in 1..SetMin({Len(attr_ids), arg.max_attr}) |-> NewTask(attr_ids[i].id)]

FetchIdle ==
    [pc |-> "idle", attr_ids |-> None, listing |-> <<>>, detail |-> <<>>,
     order |-> <<>>, handed |-> <<>>, ncalls |-> 0, assigned |-> 0, nfailed |-> 0]

InitFetch ==
    /\ RunIdle
    /\ arg \in FetchInputs
    /\ res = FetchIdle

AllDone(tasks) == \A i \in DOMAIN tasks : tasks[i].status = "done"
SomeFailed(tasks) == \E i \in DOMAIN tasks : tasks[i].status = "failed"

\* get_attr_details up to its first await of gather: get_attr_ids starts the
\* listing fan-out when attr_ids is None (and reduce() raises TypeError at
\* once when there is no page); otherwise the detail fan-out starts
CallGetAttrDetails ==
    /\ res.pc \in {"idle", "returned"}
    /\ res.ncalls < MaxCalls
    /\ res' =
         LET r == [res EXCEPT !.ncalls = @ + 1, !.order = <<>>, !.handed = <<>>,
                              !.detail = <<>>]
         IN IF attr_ids_is_None(res.attr_ids)
            THEN IF CeilPages(arg.max_attr) = 0
                 THEN [r EXCEPT !.pc = "raised"]
                 ELSE [r EXCEPT !.pc = "get_attr_ids",
                                !.listing = [p \in 1..CeilPages(arg.max_attr)
                                                |-> NewTask(p - 1)]]
            ELSE [r EXCEPT !.pc = "get_attr_details",
                           !.detail = detail_tasks(Val(res.attr_ids))]
    /\ UNCHANGED <<arg, runVars>>

\* The request of listing task i returns
ListingResponds(i) ==
    /\ res.pc = "get_attr_ids"
    /\ res.listing[i].status = "inflight"
    /\ res' = [res EXCEPT !.listing[i] = get_async_request_ok(@),
                          !.order = Append(@, i)]
    /\ UNCHANGED <<arg, runVars>>

\* The request of listing task i raises
ListingFails(i) ==
    /\ res.pc = "get_attr_ids"
    /\ res.listing[i].status = "inflight"
    /\ res.nfailed < MaxFailures
    /\ res' = [res EXCEPT !.listing[i] = get_async_request_fail(@),
                          !.nfailed = @ + 1]
    /\ UNCHANGED <<arg, runVars>>

\* gather returns in get_attr_ids: attr_ids is assigned, and get_attr_details
\* goes on to start the detail fan-out
IdsGathered ==
    /\ res.pc = "get_attr_ids"
    /\ AllDone(res.listing)
    /\ LET data == gather([i \in DOMAIN res.listing |->
                              ListingResponse(res.listing[i].req)], res.order)
           attr_ids == reduce_concat([i \in DOMAIN data |->
                                         parse_attr_ids_response(data[i])])
       IN res' = [res EXCEPT !.attr_ids = Some(attr_ids),
                             !.assigned = @ + 1,
                             !.pc = "get_attr_details",
                             !.order = <<>>,
                             !.detail = detail_tasks(attr_ids)]
    /\ UNCHANGED <<arg, runVars>>

\* The request of detail task i returns
DetailResponds(i) ==
    /\ res.pc = "get_attr_details"
    /\ res.detail[i].status = "inflight"
    /\ res' = [res EXCEPT !.detail[i] = get_async_request_ok(@),
                          !.order = Append(@, i)]
    /\ UNCHANGED <<arg, runVars>>

\* The request of detail task i raises
DetailFails(i) ==
    /\ res.pc = "get_attr_details"
    /\ res.detail[i].status = "inflight"
    /\ res.nfailed < MaxFailures
    /\ res' = [res EXCEPT !.detail[i] = get_async_request_fail(@),
                          !.nfailed = @ + 1]
    /\ UNCHANGED <<arg, runVars>>

\* gather returns in get_attr_details: format_attr_details pairs data[i]
\* with self.attr_ids[i]
DetailsGathered ==
    /\ res.pc = "get_attr_details"
    /\ AllDone(res.detail)
    /\ LET data == gather([i \in DOMAIN res.detail |->
                              DetailResponse(res.detail[i].req)], res.order)
       IN res' = [res EXCEPT !.handed = [i \in DOMAIN data |->
                                           [ref |-> Val(res.attr_ids)[i],
                                            payload |-> data[i]]],
                             !.pc = "returned"]
    /\ UNCHANGED <<arg, runVars>>

\* A task has raised after its last attempt: gather raises in the awaiting
\* coroutine, which leaves get_attr_details; run_until_complete returns and
\* the loop runs the other tasks no further
GatherRaises ==
    /\ \/ res.pc = "get_attr_ids" /\ SomeFailed(res.listing)
       \/ res.pc = "get_attr_details" /\ SomeFailed(res.detail)
    /\ res' = [res EXCEPT !.pc = "raised"]
    /\ UNCHANGED <<arg, runVars>>

NextFetch ==
    \/ CallGetAttrDetails
    \/ \E i \in 1..MaxPages : i \in DOMAIN res.listing /\ ListingResponds(i)
    \/ \E i \in 1..MaxPages : i \in DOMAIN res.listing /\ ListingFails(i)
    \/ IdsGathered
    \/ \E i \in 1..MaxIds : i \in DOMAIN res.detail /\ DetailResponds(i)
    \/ \E i \in 1..MaxIds : i \in DOMAIN res.detail /\ DetailFails(i)
    \/ DetailsGathered
    \/ GatherRaises

SpecFetch == InitFetch /\ [][NextFetch]_vars

\* C12: within one city's run no detail request is started before every
\* listing-page request has completed; attr_ids is assigned exactly once, by
\* the id-discovery phase, and is never modified while or after detail
\* requests are in flight: a second call does not refetch or rewrite it.
C12_IdsBeforeDetails ==
    /\ [](/\ res.detail # <<>> =>
               /\ res.listing # <<>>
               /\ AllDone(res.listing)
               /\ ~IsNone(res.attr_ids)
          /\ res.assigned = (IF IsNone(res.attr_ids) THEN 0 ELSE 1)
          /\ res.pc \in {"get_attr_details", "returned"} => ~IsNone(res.attr_ids))
    /\ [][~IsNone(res.attr_ids) =>
              /\ res'.attr_ids = res.attr_ids
              /\ res'.listing = res.listing
              /\ res'.assigned = res.assigned]_vars

\* In a second call the detail requests are in flight and nothing was refetched
C12_Witness ==
    /\ res.ncalls = 2
    /\ res.pc = "get_attr_details"
    /\ Len(res.listing) = 2
    /\ Len(res.detail) = 2
    /\ res.detail[1].status = "inflight"
    /\ res.detail[2].status = "done"
    /\ res.assigned = 1

\* Card a comes before card b: an earlier page, or earlier on the same page
PageOrder(a, b) == a[1] < b[1] \/ (a[1] = b[1] /\ a[2] < b[2])

\* C13: for every order in which the requests of a fan-out complete, retries
\* included, attr_ids is the concatenation of the per-page id lists in page
\* order 0, 1, 2, ..., and the i-th detail payload handed to the parser is the
\* response for the i-th id of that list.
C13_OrderPreserved ==
    /\ ~IsNone(res.attr_ids) =>
          LET ids == Val(res.attr_ids) IN
          /\ Len(ids) = SumSeq(arg.pages)
          /\ \A i \in DOMAIN ids :
                /\ ids[i].id[1] \in 0..(Len(arg.pages) - 1)
                /\ ids[i].id[2] \in 1..arg.pages[ids[i].id[1] + 1]
                /\ ids[i].name = ids[i].id
          /\ \A i, j \in DOMAIN ids : i < j => PageOrder(ids[i].id, ids[j].id)
    /\ res.pc = "returned" =>
          LET ids == Val(res.attr_ids) IN
          /\ Len(res.handed) = SetMin({Len(ids), arg.max_attr})
          /\ \A i \in DOMAIN res.handed :
                /\ res.handed[i].ref = ids[i]
                /\ res.handed[i].payload = DetailResponse(ids[i].id)

\* Two pages of one card each; the second detail request completed first and
\* a listing and a detail request were retried
C13_Witness ==
    /\ res.pc = "returned"
    /\ arg.pages = <<1, 1>>
    /\ res.order = <<2, 1>>
    /\ res.listing[2].attempts > 1
    /\ res.detail[1].attempts > 1
    /\ Len(res.handed) = 2
    /\ res.handed[2].payload = DetailResponse(<<1, 1>>)

\* The tasks of the fan-out the coroutine is in, or was in when it raised
CurrentFanOut == IF res.detail # <<>> THEN res.detail ELSE res.listing

\* C14: in a concurrent fan-out each call has its own retry state (a call
\* fails for good only on its own attempts), and a call that exhausts its
\* retries aborts that call only: its siblings are unaffected, so the fan-out
\* is not aborted while a sibling has returned or is still in flight.
C14_SiblingsUnaffected ==
    LET tasks == CurrentFanOut IN
    \A i \in DOMAIN tasks :
        tasks[i].status = "failed" =>
            /\ tasks[i].attempts = STOP_AFTER_ATTEMPT
            /\ \A j \in DOMAIN tasks \ {i} :
                  tasks[j].status \in {"done", "inflight"} => res.pc # "raised"

----------------------------------------------------------------------------
(* The retry wrappers: BaseTimeoutDecoratorClass.__call__ (storage and
   embedding calls) and tenacity's retry with stop_after_attempt (provider
   calls).  `arg` is the policy and how the wrapped operation behaves; `res`
   is the wrapper's position, loop index and counters. *)

ErrorKinds == {"TooManyRequests", "APIError", "Timeout", "ValueError", "KeyboardInterrupt"}

\* The kinds that are subclasses of Exception
Exceptions == ErrorKinds \ {"KeyboardInterrupt"}

\* The decorated operations: the library retrying them, the number it is
\* configured with, and the error kinds it retries on
Policies ==
    {[name |-> "check_file_exists", lib |-> "decorator",
      retries |-> GCP_CHECK_RETRIES, error |-> {"TooManyRequests"}],
     [name |-> "load_file", lib |-> "decorator",
      retries |-> GCP_LOAD_RETRIES, error |-> {"TooManyRequests"}],
     [name |-> "upload_file", lib |-> "decorator",
      retries |-> GCP_UPLOAD_RETRIES, error |-> {"TooManyRequests"}],
     [name |-> "embedding_api", lib |-> "decorator",
      retries |-> OPENAI_RETRIES, error |-> {"APIError", "Timeout"}],
     [name |-> "get_async_request", lib |-> "tenacity",
      retries |-> STOP_AFTER_ATTEMPT, error |-> Exceptions],
     [name |-> "get_sync_request", lib |-> "tenacity",
      retries |-> STOP_AFTER_ATTEMPT, error |-> Exceptions]}

\* The wrapped operation raises `kind` on its first k invocations; from then
\* on it returns when `then` is "ok" and raises `then` otherwise
Behaviours ==
    UNION {[policy : {p}, k : 0..(p.retries + 1), kind : ErrorKinds,
            then : {"ok"} \cup ErrorKinds] : p \in Policies}

\* What invocation number n of the operation does
Outcome(n) ==
    IF n <= arg.k THEN [ok |-> FALSE, kind |-> arg.kind, attempt |-> n]
    ELSE IF arg.then = "ok" THEN [ok |-> TRUE, kind |-> "ok", attempt |-> n]
    ELSE [ok |-> FALSE, kind |-> arg.then, attempt |-> n]
\* A handler that catches nothing, and one that catches everything
Matches_Never(policy, kind) == FALSE
Matches_Always(policy, kind) == TRUE

\* except self.error as err
Matches(policy, kind) == kind \in policy.error
\* The last pass of the loop taken to be the one before
LastIndex_OneLess(retries) == retries - 1

\* if i == self.retries: raise err
LastIndex(retries) == retries

NotStarted ==
    [pc |-> "call", i |-> 0, invoked |-> 0, sleeps |-> 0, value |-> None, error |-> None]

\* The error the caller sees: the operation's own (`as` is "same") or
\* tenacity's RetryError holding it
Raised(as, o) == Some([as |-> as, kind |-> o.kind, attempt |-> o.attempt])

\* One pass of the loop of `wrapped`: the invocation, and its handler
wrapped(policy, st, o) ==
    LET s1 == [st EXCEPT !.invoked = @ + 1] IN
    IF o.ok THEN [s1 EXCEPT !.pc = "returned", !.value = Some(o.attempt)]
    ELSE IF ~Matches(policy, o.kind)
    THEN [s1 EXCEPT !.pc = "raised", !.error = Raised("same", o)]
    ELSE LET s2 == [s1 EXCEPT !.sleeps = @ + 1] IN
         IF st.i = LastIndex(policy.retries)
         THEN [s2 EXCEPT !.pc = "raised", !.error = Raised("same", o)]
         ELSE IF st.i + 1 < policy.retries + 1
         THEN [s2 EXCEPT !.i = @ + 1]
         ELSE [s2 EXCEPT !.pc = "returned"]        \* the loop ends: None

\* One attempt under tenacity.retry(stop=stop_after_attempt(n),
\* wait=wait_fixed(2)): every Exception is retried, and RetryError is raised
\* once attempt n has failed
tenacity_retry(policy, st, o) ==
    LET s1 == [st EXCEPT !.invoked = @ + 1] IN
    IF o.ok THEN [s1 EXCEPT !.pc = "returned", !.value = Some(o.attempt)]
    ELSE IF ~Matches(policy, o.kind)
    THEN [s1 EXCEPT !.pc = "raised", !.error = Raised("same", o)]
    ELSE IF s1.invoked >= policy.retries
    THEN [s1 EXCEPT !.pc = "raised", !.error = Raised("RetryError", o)]
    ELSE [s1 EXCEPT !.sleeps = @ + 1, !.i = @ + 1]

InitRetry ==
    /\ RunIdle
    /\ arg \in Behaviours
    /\ res = NotStarted

Attempt ==
    /\ res.pc = "call"
    /\ arg.policy.lib = "decorator"
    /\ res' = wrapped(arg.policy, res, Outcome(res.invoked + 1))
    /\ UNCHANGED <<arg, runVars>>

TenacityAttempt ==
    /\ res.pc = "call"
    /\ arg.policy.lib = "tenacity"
    /\ res' = tenacity_retry(arg.policy, res, Outcome(res.invoked + 1))
    /\ UNCHANGED <<arg, runVars>>

NextRetry == Attempt \/ TenacityAttempt

SpecRetry == InitRetry /\ [][NextRetry]_vars

\* The error kind is one of the transient kinds of the policy
Transient(kind) == kind \in arg.policy.error

\* The operation raises an error the policy retries on, on every invocation
AlwaysTransient ==
    /\ arg.then # "ok"
    /\ Transient(arg.then)
    /\ arg.k > 0 => Transient(arg.kind)

\* C15 (as claimed): an operation that fails with a transient error on every
\* attempt is invoked exactly the configured number of times (20 for storage
\* access, 10 for embedding calls, 5 for provider calls) and then the last
\* error is re-raised.
C15_ConfiguredAttempts ==
    (AlwaysTransient /\ res.pc # "call") =>
        /\ res.pc = "raised"
        /\ res.invoked = arg.policy.retries
        /\ res.error = Raised("same", Outcome(res.invoked))

\* C15 (amended): such an operation is invoked `retries` + 1 times under the
\* decorator (21 for check_file_exists and load_file, 101 for upload_file, 11
\* for embedding_api) and then the last error is re-raised; a provider call is
\* invoked 5 times and then RetryError holding the last error is raised.
C15_RetriesPlusOne ==
    (AlwaysTransient /\ res.pc # "call") =>
        /\ res.pc = "raised"
        /\ arg.policy.lib = "decorator" =>
              /\ res.invoked = arg.policy.retries + 1
              /\ res.error = Raised("same", Outcome(res.invoked))
        /\ arg.policy.lib = "tenacity" =>
              /\ res.invoked = arg.policy.retries
              /\ res.error = Raised("RetryError", Outcome(res.invoked))
        /\ arg.policy.name \in {"check_file_exists", "load_file"} => res.invoked = 21
        /\ arg.policy.name = "upload_file" => res.invoked = 101
        /\ arg.policy.name = "embedding_api" => res.invoked = 11
        /\ arg.policy.name \in {"get_async_request", "get_sync_request"} => res.invoked = 5

\* load_file has raised the 21st TooManyRequests
C15_Witness ==
    /\ AlwaysTransient
    /\ arg.policy.name = "load_file"
    /\ res.pc = "raised"
    /\ res.invoked = 21
    /\ res.error = Raised("same", Outcome(21))

\* The invocations a policy allows in all
MaxAttempts(policy) ==
    IF policy.lib = "decorator" THEN policy.retries + 1 ELSE policy.retries

\* The operation fails with a transient error k times and then succeeds
FailsThenSucceeds ==
    /\ arg.then = "ok"
    /\ arg.k > 0 => Transient(arg.kind)

\* C16: for every k with 0 <= k <= maxAttempts - 1, an operation that fails
\* with a transient error k times and then succeeds is invoked exactly k + 1
\* times, the wrapper sleeps exactly k times, and the wrapper returns the
\* operation's success value.
C16_FailsThenSucceeds ==
    (FailsThenSucceeds /\ arg.k <= MaxAttempts(arg.policy) - 1) =>
        /\ res.pc = "call" => res.invoked <= arg.k /\ res.sleeps = res.invoked
        /\ res.pc # "call" =>
              /\ res.pc = "returned"
              /\ res.invoked = arg.k + 1
              /\ res.sleeps = arg.k
              /\ res.value = Some(Outcome(arg.k + 1).attempt)
              /\ Outcome(arg.k + 1).ok

\* embedding_api returned at its last allowed invocation
C16_Witness ==
    /\ FailsThenSucceeds
    /\ arg.policy.name = "embedding_api"
    /\ arg.k = MaxAttempts(arg.policy) - 1
    /\ arg.kind = "Timeout"
    /\ res.pc = "returned"
    /\ res.invoked = 11
    /\ res.sleeps = 10

\* The first error the operation raises is not one the policy retries on
FirstErrorForeign ==
    IF arg.k > 0 THEN ~Transient(arg.kind)
    ELSE arg.then # "ok" /\ ~Transient(arg.then)

\* C17: an error that does not match the policy's transient error kinds
\* propagates to the caller immediately: the operation is invoked exactly
\* once, no sleep occurs and no retry is made.
C17_ForeignErrorPropagates ==
    /\ (FirstErrorForeign /\ res.pc # "call") =>
          /\ res.pc = "raised"
          /\ res.invoked = 1
          /\ res.sleeps = 0
          /\ res.error = Raised("same", Outcome(1))
    /\ (res.pc = "raised" /\ ~Transient(Val(res.error).kind)) =>
          /\ Val(res.error).as = "same"
          /\ Val(res.error).attempt = res.invoked
          /\ res.sleeps = res.invoked - 1

\* embedding_api met TooManyRequests, which its policy does not retry on
C17_Witness ==
    /\ arg.policy.name = "embedding_api"
    /\ arg.k > 0
    /\ arg.kind = "TooManyRequests"
    /\ res.pc = "raised"
    /\ res.invoked = 1
    /\ res.sleeps = 0

----------------------------------------------------------------------------
(* The detail parser.  A DURATION text is the integers found in it and
   whether it holds "hour" and "minute"/"min"; a detail payload is the id it
   was requested for and, for each structure the parser reads, whether and
   how it is present. *)

\* round(p / q) as Python rounds: to the nearest integer, an exact half to
\* the even neighbour (p >= 0, q > 0)
round(p, q) ==
    LET f == p \div q
        r == p % q
    IN IF 2 * r < q THEN f
       ELSE IF 2 * r > q THEN f + 1
       ELSE IF f % 2 = 0 THEN f ELSE f + 1

\* extract_activity_duration.  np.mean of no digits is nan, and round(nan)
\* raises ValueError.
extract_activity_duration(text) ==
    LET n == Len(text.digits)
        total == SumSeq(text.digits)
    IN IF text.hour
       THEN IF n = 0 THEN [raised |-> TRUE, value |-> 0]
            ELSE [raised |-> FALSE, value |-> 5 * round(60 * total, 5 * n)]
       ELSE IF text.min
       THEN IF n = 0 THEN [raised |-> TRUE, value |-> 0]
            ELSE [raised |-> FALSE, value |-> 5 * round(total, 5 * n)]
       ELSE [raised |-> TRUE, value |-> 0]

\* "about 2 hours", and "2" with no unit word
AboutTwoHours == [digits |-> <<2>>, hour |-> TRUE, min |-> FALSE]
NoUnit == [digits |-> <<2>>, hour |-> FALSE, min |-> FALSE]

\* The structures of a detail payload:
\*   meta      container.jsonLd: missing, a document without rating and
\*             review count, one with both, one whose rating is no number
\*   descr     about.primary.about of the about group
\*   content   detailSectionGroups[1].about.primary.content: missing, or a
\*             list that holds a DURATION item with a text, or none
\*   sections  detailSectionGroups[0].detailSections: missing, or a list
\*             holding some of the tags, website and hours items
\*   staticMap detailSectionGroups[3].staticMap.center
Contents ==
    {[present |-> FALSE, duration |-> None], [present |-> TRUE, duration |-> None],
     [present |-> TRUE, duration |-> Some(AboutTwoHours)],
     [present |-> TRUE, duration |-> Some(NoUnit)]}

SectionSets ==
    {[present |-> FALSE, items |-> {}]} \cup
    {[present |-> TRUE, items |-> s] : s \in SUBSET {"tags", "website", "hours"}}

PayloadShapes ==
    [meta : {"missing", "bare", "full", "badRating"},
     descr : {"valid", "absent", "undecodable"},
     content : Contents,
     sections : SectionSets,
     staticMap : BOOLEAN]

\* The shapes tried in batches of more than one payload
BatchShapes ==
    {s \in PayloadShapes :
        /\ s.meta = "full"
        /\ s.staticMap
        /\ s.content = [present |-> TRUE, duration |-> Some(AboutTwoHours)]
        /\ s.sections.items \in {{}, {"tags", "website", "hours"}}}

\* self.attr_ids[idx] and the payload requested for it (idx from 1)
RefAt(i) == [id |-> <<0, i>>, name |-> <<0, i>>]
PayloadAt(shapes, i) == [forId |-> RefAt(i).id, shape |-> shapes[i]]

Value(v) == [raised |-> FALSE, value |-> v]
Raises == [raised |-> TRUE, value |-> <<>>]

\* parse_business_description: raises when no about group gives a
\* description that decodes
parse_business_description(p) ==
    IF p.shape.descr = "valid" THEN Value([about |-> p.forId]) ELSE Raises
\* parse_activity_duration letting the error of extract_activity_duration out
parse_activity_duration_Propagates(p) ==
    IF ~p.shape.content.present THEN Raises
    ELSE IF IsNone(p.shape.content.duration) THEN Value(DEFAULT_DURATION)
    ELSE LET d == extract_activity_duration(Val(p.shape.content.duration)) IN
         IF d.raised THEN Raises ELSE Value(d.value)

\* parse_activity_duration: the path to the content list is read outside the
\* try; an error in an item is passed over and the default returned
parse_activity_duration(p) ==
    IF ~p.shape.content.present THEN Raises
    ELSE IF IsNone(p.shape.content.duration) THEN Value(DEFAULT_DURATION)
    ELSE LET d == extract_activity_duration(Val(p.shape.content.duration)) IN
         IF d.raised THEN Value(DEFAULT_DURATION) ELSE Value(d.value)

\* parse_business_tags, parse_business_website, parse_business_hours: the
\* path to detailSections is read outside the try
parse_business_tags(p) ==
    IF ~p.shape.sections.present THEN Raises
    ELSE IF "tags" \in p.shape.sections.items THEN Value(<<"tag">>) ELSE Value(<<>>)

parse_business_website(p) ==
    IF ~p.shape.sections.present THEN Raises
    ELSE IF "website" \in p.shape.sections.items THEN Value("url") ELSE Value("")

parse_business_hours(p) ==
    IF ~p.shape.sections.present THEN Raises
    ELSE IF "hours" \in p.shape.sections.items THEN Value("schedule") ELSE Value("")

\* extract_lat_lng: the city's coordinates when the map centre is missing
extract_lat_lng(p) == IF p.shape.staticMap THEN "centre" ELSE "city"

\* json.loads(...["container"]["jsonLd"]) and the rating and review count
\* taken from it, float() and int() applied
general(p) ==
    CASE p.shape.meta = "missing" -> Raises
      [] p.shape.meta = "badRating" -> Raises
      [] p.shape.meta = "bare" ->
            Value([rating |-> DEFAULT_RATING, review_count |-> DEFAULT_REVIEW_COUNT])
      [] p.shape.meta = "full" -> Value([rating |-> <<4, 5>>, review_count |-> 12])

\* TripAdvisorScraper.parse_attr_details_response
parse_attr_details_response(p) ==
    LET g == general(p)
        description == parse_business_description(p)
        activity_duration == parse_activity_duration(p)
        website == parse_business_website(p)
        tags == parse_business_tags(p)
        hours == parse_business_hours(p)
    IN IF \/ g.raised \/ description.raised \/ activity_duration.raised
          \/ website.raised \/ tags.raised \/ hours.raised
       THEN Raises
       ELSE Value([rating |-> g.value.rating,
                   review_count |-> g.value.review_count,
                   latlng |-> extract_lat_lng(p),
                   description |-> description.value,
                   activity_duration |-> activity_duration.value,
                   website |-> website.value,
                   tags |-> tags.value,
                   hours |-> hours.value])

\* TripAdvisorScraper.format_attr_details: for idx, item in enumerate(data),
\* the record of item under the id and name of attr_ids[idx]; an item whose
\* parse raises is skipped
RECURSIVE format_attr_details(_, _)
format_attr_details(shapes, n) ==
    IF n = 0 THEN <<>>
    ELSE LET parsed == parse_attr_details_response(PayloadAt(shapes, n))
             details == format_attr_details(shapes, n - 1)
         IN IF parsed.raised THEN details
            ELSE Append(details, [tripadvisor_id |-> RefAt(n).id,
                                  name |-> RefAt(n).name,
                                  fields |-> parsed.value])

FormatInputs ==
    {<<s>> : s \in PayloadShapes} \cup UNION {[1..n -> BatchShapes] : n \in 0..MaxBatch}

InitFormat ==
    /\ RunIdle
    /\ arg \in FormatInputs
    /\ res = NotCalled

\* data = self.format_attr_details(data)
CallFormatAttrDetails ==
    /\ ~res.done
    /\ res' = Returned(format_attr_details(arg, Len(arg)))
    /\ UNCHANGED <<arg, runVars>>

NextFormat == CallFormatAttrDetails

SpecFormat == InitFormat /\ [][NextFormat]_vars

\* The records made for position i of the batch
RecordsOf(i) == {k \in DOMAIN res.value : res.value[k].tripadvisor_id = RefAt(i).id}

\* C18: a payload whose description is absent or cannot be decoded produces
\* no record, and every other payload of the batch still produces its
\* record; each record carries the id and name of the ref whose payload it
\* was parsed from, also when records before it were dropped.
C18_DescriptionDropsOnlyItself ==
    res.done =>
        /\ \A i \in DOMAIN arg :
              IF arg[i].descr = "valid"
              THEN \E k \in DOMAIN res.value : RecordsOf(i) = {k}
              ELSE RecordsOf(i) = {}
        /\ \A k \in DOMAIN res.value :
              /\ res.value[k].name = res.value[k].tripadvisor_id
              /\ res.value[k].fields.description = [about |-> res.value[k].tripadvisor_id]

\* The fields a payload shape should give when every sub-extraction other
\* than the description falls back to its default on a missing or malformed
\* structure
FailSoftFields(s, forId) ==
    [rating |-> IF s.meta = "full" THEN <<4, 5>> ELSE DEFAULT_RATING,
     review_count |-> IF s.meta = "full" THEN 12 ELSE DEFAULT_REVIEW_COUNT,
     latlng |-> IF s.staticMap THEN "centre" ELSE "city",
     description |-> [about |-> forId],
     activity_duration |-> IF s.content = [present |-> TRUE,
                                           duration |-> Some(AboutTwoHours)]
                           THEN 120 ELSE DEFAULT_DURATION,
     website |-> IF "website" \in s.sections.items THEN "url" ELSE "",
     tags |-> IF "tags" \in s.sections.items THEN <<"tag">> ELSE <<>>,
     hours |-> IF "hours" \in s.sections.items THEN "schedule" ELSE ""]

\* C19: for a payload with a valid description every other sub-extraction
\* (metadata block, coordinates, duration, tags, website, hours) is fail-soft
\* and isolated: a missing or malformed structure gives that field alone its
\* default, and the record is still produced with the other fields parsed.
C19_FailSoftFields ==
    res.done =>
        \A i \in DOMAIN arg :
            arg[i].descr = "valid" =>
                \E k \in DOMAIN res.value :
                    /\ res.value[k].tripadvisor_id = RefAt(i).id
                    /\ res.value[k].fields = FailSoftFields(arg[i], RefAt(i).id)

----------------------------------------------------------------------------
(* extract_activity_duration on DURATION texts. *)

DurationTexts ==
    [digits : UNION {[1..n -> 0..MaxDigit] : n \in 0..MaxInts},
     hour : BOOLEAN, min : BOOLEAN]

InitDuration ==
    /\ RunIdle
    /\ arg \in DurationTexts
    /\ res = NotCalled

\* extract_activity_duration(item["item"]["text"]["text"])
CallExtractActivityDuration ==
    /\ ~res.done
    /\ res' = Returned(extract_activity_duration(arg))
    /\ UNCHANGED <<arg, runVars>>

NextDuration == CallExtractActivityDuration

SpecDuration == InitDuration /\ [][NextDuration]_vars

\* The sum of the integers of the text in minutes: times 60 when the unit is
\* hour.  The mean is this over the number of integers.
MinutesSum(text) == (IF text.hour THEN 60 ELSE 1) * SumSeq(text.digits)

\* C20: for a DURATION text holding integers d1..dn (n >= 1) and a recognized
\* unit word the result is the mean of the integers in minutes rounded to the
\* nearest multiple of 5, exact halves rounded up: "about 2 hours" gives 120,
\* "15-20 minutes" gives 20, and the result is always a multiple of 5.
C20_NearestFiveHalvesUp ==
    (res.done /\ Len(arg.digits) >= 1 /\ (arg.hour \/ arg.min)) =>
        LET n == Len(arg.digits)
            v == res.value.value
        IN /\ ~res.value.raised
           /\ v % 5 = 0
           /\ 2 * (n * v - MinutesSum(arg)) <= 5 * n
           /\ 2 * (MinutesSum(arg) - n * v) <= 5 * n
           /\ 2 * (MinutesSum(arg) - n * v) # 5 * n
           /\ (arg.digits = <<2>> /\ arg.hour) => v = 120
           /\ (arg.digits = <<15, 20>> /\ ~arg.hour) => v = 20

----------------------------------------------------------------------------
(* get_text_embeddings and create_pinecone_data.  `arg` is the number of
   records and how the embedding collaborator orders its answer; `res` is the
   position in get_text_embeddings, the prompts, the batches still to send,
   the batches sent and the vectors gathered. *)

\* The records of a city: name, type, description and tags of attraction i
RecordAt(i) == [name |-> i, type |-> "Attraction", description |-> i, tags |-> <<"tag", i>>]
Records(n) == [i \in 1..n |-> RecordAt(i)]

\* construct_text_embedding_prompt: name, type, description and the joined
\* tags of each record, in record order
construct_text_embedding_prompt(data) ==
    [i \in DOMAIN data |->
        [name |-> data[i].name, type |-> data[i].type,
         description |-> data[i].description, tags |-> data[i].tags]]

\* Only the batches that are full
RECURSIVE batch_data_FullOnly(_, _)
batch_data_FullOnly(data, n) ==
    IF Len(data) < n THEN <<>>
    ELSE <<SubSeq(data, 1, n)>> \o batch_data_FullOnly(SubSeq(data, n + 1, Len(data)), n)

\* batch_data: data[idx : idx + n] for idx in range(0, len(data), n)
RECURSIVE batch_data(_, _)
batch_data(data, n) ==
    IF Len(data) = 0 THEN <<>>
    ELSE IF Len(data) <= n THEN <<data>>
    ELSE <<SubSeq(data, 1, n)>> \o batch_data(SubSeq(data, n + 1, Len(data)), n)

\* embedding_api: response["data"], one entry per prompt; the collaborator
\* answers in the order of its input, or in the reverse order
embedding_api(prompt_batch, collab) ==
    [i \in DOMAIN prompt_batch |->
        [embedding |-> [of |-> IF collab = "in_order" THEN prompt_batch[i]
                               ELSE prompt_batch[Len(prompt_batch) + 1 - i]]]]

\* create_pinecone_data: record idx with embedding_list[idx]["embedding"]
create_pinecone_data(metadata_list, embedding_list) ==
    [i \in DOMAIN metadata_list |->
        [metadata |-> metadata_list[i], values |-> embedding_list[i].embedding]]

EmbedIdle ==
    [pc |-> "idle", prompts |-> <<>>, batches |-> <<>>, sent |-> <<>>,
     embeddings |-> <<>>, pinecone_data |-> <<>>]

InitEmbed ==
    /\ RunIdle
    /\ arg \in [n : 0..MaxRecords, collab : {"in_order", "reversed"}]
    /\ res = EmbedIdle

\* get_text_embeddings up to its loop
CallGetTextEmbeddings ==
    /\ res.pc = "idle"
    /\ LET prompts == construct_text_embedding_prompt(Records(arg.n)) IN
       res' = [res EXCEPT !.pc = "get_text_embeddings",
                          !.prompts = prompts,
                          !.batches = batch_data(prompts, OPENAI_EMBEDDING_BATCH)]
    /\ UNCHANGED <<arg, runVars>>

\* embeddings += embedding_api(prompt_batch)
EmbedBatch ==
    /\ res.pc = "get_text_embeddings"
    /\ res.batches # <<>>
    /\ res' = [res EXCEPT !.batches = Tail(@),
                          !.sent = Append(@, Head(res.batches)),
                          !.embeddings = @ \o embedding_api(Head(res.batches), arg.collab)]
    /\ UNCHANGED <<arg, runVars>>

\* return embeddings, and pinecone_data = create_pinecone_data(attr_details,
\* embeddings)
CreatePineconeData ==
    /\ res.pc = "get_text_embeddings"
    /\ res.batches = <<>>
    /\ res' = [res EXCEPT !.pc = "paired",
                          !.pinecone_data =
                              create_pinecone_data(Records(arg.n), res.embeddings)]
    /\ UNCHANGED <<arg, runVars>>

NextEmbed == CallGetTextEmbeddings \/ EmbedBatch \/ CreatePineconeData

SpecEmbed == InitEmbed /\ [][NextEmbed]_vars

RECURSIVE Flatten(_)
Flatten(lists) == IF lists = <<>> THEN <<>> ELSE Head(lists) \o Flatten(Tail(lists))

PromptOf(r) == [name |-> r.name, type |-> r.type, description |-> r.description, tags |-> r.tags]

\* C21: get_text_embeddings builds one prompt per record in record order,
\* sends them in consecutive batches of at most the batch size whose
\* concatenation is the full prompt list, and concatenates the returned
\* vectors in batch order, so that with a collaborator answering in order the
\* i-th vector belongs to the i-th record; create_pinecone_data pairs the i-th
\* record with the i-th vector for every i.
C21_RecordsVectorsAligned ==
    res.pc # "idle" =>
        /\ Len(res.prompts) = arg.n
        /\ \A i \in 1..arg.n : res.prompts[i] = PromptOf(RecordAt(i))
        /\ \A b \in DOMAIN res.sent : Len(res.sent[b]) \in 1..100
        /\ Flatten(res.sent) \o Flatten(res.batches) = res.prompts
        /\ Len(res.embeddings) = Len(Flatten(res.sent))
        /\ arg.collab = "in_order" =>
              \A i \in DOMAIN res.embeddings :
                  res.embeddings[i].embedding.of = PromptOf(RecordAt(i))
        /\ res.pc = "paired" =>
              /\ Len(res.embeddings) = arg.n
              /\ Len(res.pinecone_data) = arg.n
              /\ \A i \in 1..arg.n :
                    /\ res.pinecone_data[i].metadata = RecordAt(i)
                    /\ res.pinecone_data[i].values = res.embeddings[i].embedding
                    /\ arg.collab = "in_order" =>
                          res.pinecone_data[i].values.of = PromptOf(RecordAt(i))

\* 201 records went out in batches of 100, 100 and 1
C21_Witness ==
    /\ res.pc = "paired"
    /\ arg.n = 201
    /\ arg.collab = "in_order"
    /\ Len(res.sent) = 3
    /\ Len(res.sent[3]) = 1
    /\ res.pinecone_data[201].values.of = PromptOf(RecordAt(201))

\* The payload has a DURATION entry whose text holds no unit word
UnitlessDuration(s) ==
    /\ s.content.present
    /\ ~IsNone(s.content.duration)
    /\ ~Val(s.content.duration).hour
    /\ ~Val(s.content.duration).min

\* The structures other than the duration entry are such that the parse of
\* the payload gets through
OtherwiseParses(s) ==
    /\ s.descr = "valid"
    /\ s.meta \in {"bare", "full"}
    /\ s.content.present
    /\ s.sections.present

C23_AtMostMaxAttr ==
    /\ Len(res.detail) <= arg.max_attr
    /\ res.pc = "returned" => Len(res.handed) <= arg.max_attr
    /\ res.nfailed = 0 => res.pc # "raised"

----------------------------------------------------------------------------

\* A step of the iteration pass of a run: the process neither starts nor stops
PassStep == InRun /\ pc' \notin {"constructed", "crashed"}

\* C24: one iteration pass yields tasks in stored order, only tasks that had
\* processed = false when the pass reached them, each at most once; it never
\* adds, removes or reorders tasks, never changes a field other than
\* processed and success, and never changes a field of a task it did not
\* yield.
C24_PassFrame ==
    /\ [](InRun =>
            /\ \A a, b \in DOMAIN yielded : a < b => yielded[a] < yielded[b]
            /\ SeqRange(yielded) \subseteq unprocessed0
            /\ \A i \in unprocessed0 \ SeqRange(yielded) : ~cache[i].processed)
    /\ [][PassStep =>
            /\ DOMAIN cache' = DOMAIN cache
            /\ \A i \in DOMAIN cache :
                  /\ cache'[i].namespace = cache[i].namespace
                  /\ i \notin SeqRange(yielded') => cache'[i] = cache[i]
            /\ yielded' # yielded =>
                  /\ yielded' = Append(yielded, idx)
                  /\ ~cache[idx].processed
                  /\ \A a \in DOMAIN yielded : yielded[a] < idx]_vars

\* A pass over three tasks skipped the first and yielded the other two
C24_Witness ==
    /\ pc = "returned"
    /\ Len(cache) = 3
    /\ unprocessed0 = {2, 3}
    /\ yielded = <<2, 3>>
    /\ cache[1].namespace = 1

====
